---- MODULE Spec2Model ----
(***************************************************************************)
(* Model of the exoplanet dashboard: the ExoplanetsDB data-access class   *)
(* (src/src/database.py) and the ExoplanetDashboard filter controller     *)
(* (src/src/dashboard.py).                                                 *)
(*                                                                         *)
(* A nullable cell is a sequence of length 0 (NULL / NaN / None) or 1.     *)
(* A DataFrame is a sequence of entries [ix, rec]: the pandas index label  *)
(* and the row.  A sqlite table is a sequence of rows in rowid order.      *)
(***************************************************************************)
EXTENDS Integers, Sequences, FiniteSets, TLC

VARIABLES
    pc,            \* which program is running and how far it got
    db,            \* the ExoplanetsDB object: its conn field and the sqlite handle
    store,         \* the exoplanets.db file: the exoplanets table
    imported,      \* the CSV a client's last successful import_data call read
    lastOp,        \* the operation the last step executed
    outcome,       \* "ok" or "raised": how that operation ended
    result,        \* the DataFrame the last call returned, if it returned one
    df,            \* ExoplanetDashboard.df
    discovery_df,  \* ExoplanetDashboard.discovery_df
    stats,         \* ExoplanetDashboard.stats
    filtered_df,   \* ExoplanetDashboard.filtered_df
    mass_range,    \* the RangeSlider widget
    panels,        \* the content of the five display slots
    refreshed,     \* the slots the last step assigned
    interacted     \* TRUE once update_dashboard has run

dbVars   == <<db, store, imported, result>>
dashVars == <<df, discovery_df, stats, filtered_df, mass_range, panels,
              refreshed, interacted>>
vars     == <<pc, lastOp, outcome, db, store, imported, result,
              df, discovery_df, stats, filtered_df, mass_range, panels,
              refreshed, interacted>>

----------------------------------------------------------------------------
(* Bounds *)

MaxRows    == 3    \* rows of the CSV file the database.py script imports
MaxApiRows == 2    \* rows of a CSV file handed to import_data directly
MaxMass    == 2    \* largest planet mass in a CSV file
MaxCloses  == 3    \* close() calls on one connection object

----------------------------------------------------------------------------
(* Nullable cells *)

Null      == << >>
Val(x)    == << x >>
IsNull(c) == c = Null

\* pandas/numpy comparison of a float cell with a number: NaN compares False
CellGe(c, x) == IF IsNull(c) THEN FALSE ELSE c[1] >= x
CellLe(c, x) == IF IsNull(c) THEN FALSE ELSE c[1] <= x

----------------------------------------------------------------------------
(* CSV sources *)

Names  == {Null, Val("a"), Val("b")}
Masses == {Null} \cup {Val(m) : m \in 0..MaxMass}

HostOf(n)   == IF n = Val("b") THEN Val("h2") ELSE Val("h1")
MethodOf(n) == IF n = Val("b") THEN Val("Radial Velocity") ELSE Val("Transit")
YearOf(n)   == IF n = Val("a") THEN Val(2000) ELSE Val(2001)
PeriodOf(m) == IF IsNull(m) THEN Val(1) ELSE Val(10 * (m[1] + 1))
RadiusOf(m) == IF IsNull(m) THEN Null ELSE Val(m[1] + 1)

\* a row of the CSV file: the seven required columns and one extra column
CsvRow(n, m) ==
    [pl_name |-> n, hostname |-> HostOf(n), pl_bmasse |-> m,
     pl_orbper |-> PeriodOf(m), discoverymethod |-> MethodOf(n),
     disc_year |-> YearOf(n), pl_rade |-> RadiusOf(m), sy_dist |-> Val(7)]

CsvRows == {CsvRow(n, m) : n \in Names, m \in Masses}

SeqsUpTo(S, n) == UNION {[1..k -> S] : k \in 0..n}

\* a CSV file that lacks one of the required columns
BadCsv == << [pl_name |-> Val("a")] >>

Sources == SeqsUpTo(CsvRows, MaxRows) \cup {BadCsv}

\* import_data does not look at the mass: the files a client hands to it
\* directly have the mass missing or present
ApiRows    == {CsvRow(n, m) : n \in Names, m \in {Null, Val(MaxMass)}}
ApiSources == SeqsUpTo(ApiRows, MaxApiRows) \cup {BadCsv}

columns == {"pl_name", "hostname", "pl_bmasse", "pl_orbper",
            "discoverymethod", "disc_year", "pl_rade"}

HasColumns(csv) == \A i \in 1..Len(csv) : columns \subseteq DOMAIN csv[i]

\* df[columns]
SelectColumns(csv) ==
    [i \in 1..Len(csv) |-> [c \in columns |-> csv[i][c]]]

\* df_subset.dropna(subset=['pl_name'])
DropNaName(rows) == SelectSeq(rows, LAMBDA r : ~IsNull(r.pl_name))

----------------------------------------------------------------------------
(* The sqlite file *)

NoStats == [total_planets |-> 0, avg_planet_mass |-> Null,
            unique_host_stars |-> 0]

NoTable == [exists |-> FALSE, pk |-> FALSE, rows |-> << >>]

\* CREATE TABLE IF NOT EXISTS exoplanets (pl_name TEXT PRIMARY KEY, ...)
CreateTableIfNotExists(s) ==
    IF s.exists THEN s ELSE [exists |-> TRUE, pk |-> TRUE, rows |-> << >>]

\* DataFrame.to_sql('exoplanets', conn, if_exists='replace', index=False):
\* the table is dropped and created again from the frame's columns, with no
\* key, and the frame's rows are inserted.  ToSqlAppend is what
\* if_exists='append' would do to a table made by an earlier to_sql.
ToSqlAppend(s, rows) ==
    [exists |-> TRUE, pk |-> FALSE, rows |-> s.rows \o rows]

ToSqlReplace(s, rows) ==
    [exists |-> TRUE, pk |-> FALSE, rows |-> rows]

\* pd.read_sql_query("SELECT * FROM exoplanets"): rows in rowid order under
\* a RangeIndex
ReadSqlAll(s) ==
    [i \in 1..Len(s.rows) |-> [ix |-> i - 1, rec |-> s.rows[i]]]

\* SELECT disc_year, discoverymethod, COUNT(*) ... GROUP BY disc_year,
\* discoverymethod; the order of the groups is left out
GroupByYearMethod(s) ==
    LET keys == {<<s.rows[i].disc_year, s.rows[i].discoverymethod>> :
                    i \in 1..Len(s.rows)}
    IN  {[disc_year |-> k[1], discoverymethod |-> k[2],
          count |-> Cardinality({i \in 1..Len(s.rows) :
                        /\ s.rows[i].disc_year = k[1]
                        /\ s.rows[i].discoverymethod = k[2]})] : k \in keys}

RECURSIVE SumCells(_)
SumCells(cells) ==
    IF cells = << >> THEN 0
    ELSE (IF IsNull(Head(cells)) THEN 0 ELSE Head(cells)[1])
         + SumCells(Tail(cells))

CountCells(cells) == Len(SelectSeq(cells, LAMBDA c : ~IsNull(c)))

Column(rows, c) == [i \in 1..Len(rows) |-> rows[i][c]]

\* the three queries of get_basic_stats; an average is the pair <<sum, n>>
BasicStats(s) ==
    LET m == Column(s.rows, "pl_bmasse")
        h == Column(s.rows, "hostname")
    IN  [total_planets     |-> Len(s.rows),
         avg_planet_mass   |-> IF CountCells(m) = 0 THEN Null
                               ELSE Val(<<SumCells(m), CountCells(m)>>),
         unique_host_stars |-> Cardinality({h[i] : i \in 1..Len(h)}
                                           \ {Null})]

----------------------------------------------------------------------------
(* ExoplanetsDB.  conn is "None" while self.conn is None, else the state   *)
(* of the sqlite3 connection self.conn refers to; closes counts the        *)
(* Connection.close() calls made on that connection.  Each method maps the *)
(* object and the file to the object and the file after the call, with ok  *)
(* FALSE when the call raised.                                             *)

NewDB == [conn |-> "None", closes |-> 0]

Ret(o, s, ok) == [o |-> o, s |-> s, ok |-> ok]

connect(o, s, fail) ==
    IF fail THEN Ret(o, s, FALSE)
    ELSE Ret([conn |-> "open", closes |-> 0], s, TRUE)

\* close() without the test of self.conn: None has no close()
closeNoGuard(o, s) ==
    IF o.conn = "None" THEN Ret(o, s, FALSE)
    ELSE Ret([conn |-> "closed", closes |-> o.closes + 1], s, TRUE)

close(o, s) ==
    IF o.conn # "None"
    THEN Ret([conn |-> "closed", closes |-> o.closes + 1], s, TRUE)
    ELSE Ret(o, s, TRUE)

create_tables(o, s, fail) ==
    IF o.conn # "open" \/ fail THEN Ret(o, s, FALSE)
    ELSE Ret(o, CreateTableIfNotExists(s), TRUE)

import_data(o, s, csv, fail) ==
    IF ~HasColumns(csv) \/ o.conn # "open" \/ fail THEN Ret(o, s, FALSE)
    ELSE Ret(o, ToSqlReplace(s, DropNaName(SelectColumns(csv))), TRUE)

\* a read raises on a missing or closed connection, on a missing table and
\* on a failing read
CanQuery(o, s, fail) == o.conn = "open" /\ s.exists /\ ~fail

RetVal(o, s, ok, v, none) ==
    [o |-> o, s |-> s, ok |-> ok, val |-> IF ok THEN v ELSE none]

get_all_exoplanets(o, s, fail) ==
    RetVal(o, s, CanQuery(o, s, fail), ReadSqlAll(s), << >>)

get_discovery_methods_by_year(o, s, fail) ==
    RetVal(o, s, CanQuery(o, s, fail), GroupByYearMethod(s), {})

get_basic_stats(o, s, fail) ==
    RetVal(o, s, CanQuery(o, s, fail), BasicStats(s), NoStats)

\* initialize_database(csv_path); failAt names the call that fails, if any
initialize_database(s, csv, failAt) ==
    LET r1 == connect(NewDB, s, failAt = 1)
        r2 == IF r1.ok THEN create_tables(r1.o, r1.s, failAt = 2) ELSE r1
    IN  IF r2.ok THEN import_data(r2.o, r2.s, csv, failAt = 3) ELSE r2

\* the script under __main__: initialize, two test queries, close
database_main(s, csv, failAt) ==
    LET r3 == initialize_database(s, csv, failAt)
        r4 == IF r3.ok THEN get_basic_stats(r3.o, r3.s, failAt = 4) ELSE r3
        r5 == IF r4.ok
              THEN get_discovery_methods_by_year(r4.o, r4.s, failAt = 5)
              ELSE r4
    IN  IF r5.ok THEN close(r5.o, r5.s) ELSE r5

----------------------------------------------------------------------------
(* Initial values of the dashboard's fields, before __init__ has run *)

NoSlider == [start |-> 0, end |-> Null, value |-> <<Null, Null>>]
NoMd     == [total |-> 0, avg_mass |-> Null, avg_radius |-> Null, hosts |-> 0]
NoPanels == [scatter |-> << >>, mass_radius |-> << >>, discovery |-> {},
             stats |-> NoMd, table |-> << >>]

DashInit ==
    /\ df = << >> /\ discovery_df = {} /\ stats = NoStats
    /\ filtered_df = << >> /\ mass_range = NoSlider /\ panels = NoPanels
    /\ refreshed = {} /\ interacted = FALSE

DbInit ==
    /\ db = NewDB /\ store = NoTable /\ imported = << >> /\ result = << >>
    /\ lastOp = "none" /\ outcome = "ok"

----------------------------------------------------------------------------
(* SpecDB: a client calling the methods of one ExoplanetsDB in any order *)

Call(op, r) ==
    /\ lastOp' = op
    /\ outcome' = IF r.ok THEN "ok" ELSE "raised"
    /\ db' = r.o
    /\ store' = r.s

ApiConnect ==
    /\ pc = "api"
    /\ \E fail \in BOOLEAN : Call("connect", connect(db, store, fail))
    /\ result' = << >>
    /\ UNCHANGED <<pc, imported, dashVars>>

ApiClose ==
    /\ pc = "api"
    /\ db.closes < MaxCloses
    /\ Call("close", close(db, store))
    /\ result' = << >>
    /\ UNCHANGED <<pc, imported, dashVars>>

ApiCreateTables ==
    /\ pc = "api"
    /\ \E fail \in BOOLEAN :
          Call("create_tables", create_tables(db, store, fail))
    /\ result' = << >>
    /\ UNCHANGED <<pc, imported, dashVars>>

ApiImportData ==
    /\ pc = "api"
    /\ \E csv \in ApiSources, fail \in BOOLEAN :
          LET r == import_data(db, store, csv, fail)
          IN  /\ Call("import_data", r)
              /\ imported' = IF r.ok THEN csv ELSE imported
    /\ result' = << >>
    /\ UNCHANGED <<pc, dashVars>>

ApiGetAll ==
    /\ pc = "api"
    /\ \E fail \in BOOLEAN :
          LET r == get_all_exoplanets(db, store, fail)
          IN  /\ Call("get_all_exoplanets", r)
              /\ result' = r.val
    /\ UNCHANGED <<pc, imported, dashVars>>

ApiGetDiscovery ==
    /\ pc = "api"
    /\ \E fail \in BOOLEAN :
          Call("get_discovery_methods_by_year",
               get_discovery_methods_by_year(db, store, fail))
    /\ result' = << >>
    /\ UNCHANGED <<pc, imported, dashVars>>

ApiGetStats ==
    /\ pc = "api"
    /\ \E fail \in BOOLEAN :
          Call("get_basic_stats", get_basic_stats(db, store, fail))
    /\ result' = << >>
    /\ UNCHANGED <<pc, imported, dashVars>>

InitDB == pc = "api" /\ DbInit /\ DashInit

NextDB ==
    \/ ApiConnect
    \/ ApiClose
    \/ ApiCreateTables
    \/ ApiImportData
    \/ ApiGetAll
    \/ ApiGetDiscovery
    \/ ApiGetStats

SpecDB == InitDB /\ [][NextDB]_vars

----------------------------------------------------------------------------
(* pandas operations the dashboard uses *)

FrameColumn(f, c) == [i \in 1..Len(f) |-> f[i].rec[c]]

\* df.dropna(subset=['pl_bmasse'])
DataFrameDropNaMass(f) == SelectSeq(f, LAMBDA e : ~IsNull(e.rec.pl_bmasse))

\* df.copy()
DataFrameCopy(f) == [i \in 1..Len(f) |-> [ix |-> f[i].ix, rec |-> f[i].rec]]

\* (df['pl_bmasse'] >= min_mass) & (df['pl_bmasse'] < max_mass), one row
MassMaskExclusive(rec, mn, mx) ==
    CellGe(rec.pl_bmasse, mn) /\ CellLe(rec.pl_bmasse, mx - 1)

\* (df['pl_bmasse'] >= min_mass) & (df['pl_bmasse'] <= max_mass), one row
MassMask(rec, mn, mx) ==
    CellGe(rec.pl_bmasse, mn) /\ CellLe(rec.pl_bmasse, mx)

\* df[mask]: the rows where the mask is True, with their index labels
BoolIndex(f, mn, mx) == SelectSeq(f, LAMBDA e : MassMask(e.rec, mn, mx))

\* Series.fillna(0).mean(), with 0 for an empty column
SeriesMeanFillZero(cells) ==
    IF Len(cells) = 0 THEN Val(<<0, 1>>)
    ELSE Val(<<SumCells(cells), Len(cells)>>)

\* Series.mean(): NaN cells are skipped, NaN when nothing is left; the mean
\* is the pair <<sum, n>>
SeriesMean(cells) ==
    IF CountCells(cells) = 0 THEN Null
    ELSE Val(<<SumCells(cells), CountCells(cells)>>)

\* Series.max(): NaN cells are skipped, NaN when nothing is left
SeriesMax(cells) ==
    LET vs == {cells[i][1] : i \in {j \in 1..Len(cells) : ~IsNull(cells[j])}}
    IN  IF vs = {} THEN Null
        ELSE Val(CHOOSE v \in vs : \A w \in vs : w <= v)

\* Series.nunique(): the distinct non-null cells
SeriesNUnique(cells) ==
    Cardinality({cells[i] : i \in 1..Len(cells)} \ {Null})

\* f"{x:.2f}": "nan" for NaN, else the value in hundredths, rounded to the
\* nearest with ties to even
Format2f(mean) ==
    IF IsNull(mean) THEN Null
    ELSE LET n == 100 * mean[1][1]
             d == mean[1][2]
             q == n \div d
             r == n % d
         IN  Val(IF 2 * r < d THEN q
                 ELSE IF 2 * r > d THEN q + 1
                 ELSE IF q % 2 = 0 THEN q ELSE q + 1)

----------------------------------------------------------------------------
(* The panes ExoplanetDashboard builds from its fields *)

Slots == {"scatter", "mass_radius", "discovery", "stats", "table"}

create_mass_period_plot(f) ==
    [i \in 1..Len(f) |-> [x |-> f[i].rec.pl_orbper, y |-> f[i].rec.pl_bmasse,
                          hover |-> <<f[i].rec.pl_name, f[i].rec.hostname>>]]

create_mass_radius_plot(f) ==
    [i \in 1..Len(f) |-> [x |-> f[i].rec.pl_bmasse, y |-> f[i].rec.pl_rade,
                          hover |-> <<f[i].rec.pl_name, f[i].rec.hostname>>]]

create_discovery_timeline(d) ==
    {[x |-> g.disc_year, y |-> g.count, by |-> g.discoverymethod] : g \in d}

\* the panel with filtered_df['pl_bmasse'].count() for the total
create_stats_panel_count(f) ==
    [total      |-> CountCells(FrameColumn(f, "pl_bmasse")),
     avg_mass   |-> Format2f(SeriesMean(FrameColumn(f, "pl_bmasse"))),
     avg_radius |-> Format2f(SeriesMean(FrameColumn(f, "pl_rade"))),
     hosts      |-> SeriesNUnique(FrameColumn(f, "hostname"))]

\* the four values the Markdown pane prints
create_stats_panel(f) ==
    [total      |-> Len(f),
     avg_mass   |-> Format2f(SeriesMean(FrameColumn(f, "pl_bmasse"))),
     avg_radius |-> Format2f(SeriesMean(FrameColumn(f, "pl_rade"))),
     hosts      |-> SeriesNUnique(FrameColumn(f, "hostname"))]

display_cols == <<"pl_name", "hostname", "pl_bmasse", "pl_rade",
                  "pl_orbper", "discoverymethod", "disc_year">>

create_data_table(f) ==
    [i \in 1..Len(f) |->
        [ix |-> f[i].ix,
         rec |-> [c \in {display_cols[k] : k \in 1..Len(display_cols)}
                     |-> f[i].rec[c]]]]

UpdatedSlotsAll == Slots

\* the slots update_dashboard assigns

UpdatedSlots == {"scatter", "mass_radius", "stats", "table"}

----------------------------------------------------------------------------
(* Spec: one run of database.py followed by one session of dashboard.py *)

Ranges == {<<mn, mx>> \in (0..MaxMass) \X (0..MaxMass) : mn <= mx}

\* python database.py; the file the script reads is not recorded in imported
DatabaseMain ==
    /\ pc = "shell"
    /\ \E csv \in Sources, failAt \in 0..5 :
          LET r == database_main(store, csv, failAt)
          IN  /\ Call("database_main", r)
              /\ pc' = IF r.ok THEN "script_done" ELSE "script_raised"
    /\ result' = << >>
    /\ UNCHANGED <<imported, dashVars>>

\* dashboard = ExoplanetDashboard(); failAt names the call that fails
DashboardInit ==
    /\ pc \in {"shell", "script_done", "script_raised"}
    /\ \E failAt \in 0..4 :
          LET r1 == connect(NewDB, store, failAt = 1)
              r2 == IF r1.ok THEN get_all_exoplanets(r1.o, r1.s, failAt = 2)
                    ELSE RetVal(r1.o, r1.s, FALSE, << >>, << >>)
              r3 == IF r2.ok
                    THEN get_discovery_methods_by_year(r2.o, r2.s, failAt = 3)
                    ELSE RetVal(r2.o, r2.s, FALSE, {}, {})
              r4 == IF r3.ok THEN get_basic_stats(r3.o, r3.s, failAt = 4)
                    ELSE RetVal(r3.o, r3.s, FALSE, NoStats, NoStats)
          IN  /\ Call("__init__", r4)
              /\ df' = r2.val
              /\ discovery_df' = r3.val
              /\ stats' = r4.val
              /\ filtered_df' = IF r4.ok THEN DataFrameCopy(r2.val) ELSE << >>
              /\ pc' = IF r4.ok THEN "inited" ELSE "dash_raised"
    /\ result' = << >>
    /\ UNCHANGED <<imported, mass_range, panels, refreshed, interacted>>

\* app = dashboard.create_dashboard()
CreateDashboard ==
    /\ pc = "inited"
    /\ pc' = "serving"
    /\ lastOp' = "create_dashboard"
    /\ outcome' = "ok"
    /\ mass_range' =
          LET end == SeriesMax(FrameColumn(df, "pl_bmasse"))
          IN  [start |-> 0, end |-> end, value |-> <<Val(0), end>>]
    /\ panels' = [scatter     |-> create_mass_period_plot(filtered_df),
                  mass_radius |-> create_mass_radius_plot(filtered_df),
                  discovery   |-> create_discovery_timeline(discovery_df),
                  stats       |-> create_stats_panel(filtered_df),
                  table       |-> create_data_table(filtered_df)]
    /\ refreshed' = Slots
    /\ UNCHANGED <<dbVars, df, discovery_df, stats, filtered_df, interacted>>

\* update_dashboard filtering self.df itself
update_dashboard_inplace(mn, mx) ==
    /\ mass_range' = [mass_range EXCEPT !.value = <<Val(mn), Val(mx)>>]
    /\ df' = BoolIndex(df, mn, mx)
    /\ filtered_df' = df'
    /\ panels' = [panels EXCEPT
          !.scatter     = create_mass_period_plot(filtered_df'),
          !.mass_radius = create_mass_radius_plot(filtered_df'),
          !.stats       = create_stats_panel(filtered_df'),
          !.table       = create_data_table(filtered_df')]
    /\ refreshed' = UpdatedSlots
    /\ interacted' = TRUE
    /\ UNCHANGED <<dbVars, discovery_df, stats>>

\* the slider's value becomes (mn, mx) and its watcher runs; the handler
\* does not check the range against the slider's bounds
update_dashboard(mn, mx) ==
    /\ mass_range' = [mass_range EXCEPT !.value = <<Val(mn), Val(mx)>>]
    /\ filtered_df' = BoolIndex(df, mn, mx)
    /\ panels' = [panels EXCEPT
          !.scatter     = create_mass_period_plot(filtered_df'),
          !.mass_radius = create_mass_radius_plot(filtered_df'),
          !.stats       = create_stats_panel(filtered_df'),
          !.table       = create_data_table(filtered_df')]
    /\ refreshed' = UpdatedSlots
    /\ interacted' = TRUE
    /\ UNCHANGED <<dbVars, df, discovery_df, stats>>

OnRangeChanged ==
    /\ pc = "serving"
    /\ \E rg \in Ranges : update_dashboard(rg[1], rg[2])
    /\ lastOp' = "update_dashboard"
    /\ outcome' = "ok"
    /\ UNCHANGED pc

\* dashboard.cleanup()
Cleanup ==
    /\ pc \in {"inited", "serving"}
    /\ pc' = "cleaned"
    /\ Call("cleanup", close(db, store))
    /\ UNCHANGED <<imported, result, dashVars>>

Init == pc = "shell" /\ DbInit /\ DashInit

Next ==
    \/ DatabaseMain
    \/ DashboardInit
    \/ CreateDashboard
    \/ OnRangeChanged
    \/ Cleanup

Spec == Init /\ [][Next]_vars

----------------------------------------------------------------------------
(* Properties *)

RangeMin == mass_range.value[1][1]
RangeMax == mass_range.value[2][1]

NullMass(e) == IsNull(e.rec.pl_bmasse)

ViewPositions(ix) == {k \in 1..Len(filtered_df) : filtered_df[k].ix = ix}

\* C1: after update_dashboard with the range (min, max) the view holds
\* exactly the rows of df whose mass is not null and lies in [min, max],
\* each once; rows with a null mass are not in it.
C1_FilterExact ==
    lastOp = "update_dashboard" =>
        /\ \A k \in 1..Len(filtered_df) :
              \E i \in 1..Len(df) : filtered_df[k] = df[i]
        /\ \A i \in 1..Len(df) :
              LET m == df[i].rec.pl_bmasse
              IN  Cardinality(ViewPositions(df[i].ix)) =
                     IF m # Null /\ RangeMin <= m[1] /\ m[1] <= RangeMax
                     THEN 1 ELSE 0

C1_Witness ==
    /\ lastOp = "update_dashboard"
    /\ \E i \in 1..Len(df) : NullMass(df[i])
    /\ \E i \in 1..Len(df) : ~NullMass(df[i])
                             /\ df[i].rec.pl_bmasse[1] > RangeMax
    /\ \E k \in 1..Len(filtered_df) :
          filtered_df[k].rec.pl_bmasse = Val(RangeMax)

\* C2: while the dashboard is served, the total the statistics slot shows
\* is the number of rows of the current view.
C2_TotalCountIsViewSize ==
    pc = "serving" => panels.stats.total = Len(filtered_df)

C2_Witness ==
    /\ pc = "serving" /\ interacted
    /\ 0 < Len(filtered_df) /\ Len(filtered_df) < Len(df)
    /\ panels.stats.total = Len(filtered_df)

C4_ConnectionReleased ==
    /\ pc \in {"script_done", "script_raised", "dash_raised", "cleaned"}
          => db.conn # "open"
    /\ db.closes <= 1

WellFormed(csv) ==
    /\ HasColumns(csv)
    /\ \A i \in 1..Len(csv) : ~IsNull(csv[i].pl_name)
    /\ \A i, j \in 1..Len(csv) : i # j => csv[i].pl_name # csv[j].pl_name

SameRow(r, src) == DOMAIN r = columns /\ \A c \in columns : r[c] = src[c]

\* C5: get_all_exoplanets after an import of N well-formed rows returns N
\* rows equal to the source rows on the seven columns; the table holds the
\* rows of the last import only.
C5_ImportRoundTrip ==
    /\ (lastOp = "get_all_exoplanets" /\ outcome = "ok"
           /\ WellFormed(imported))
          => /\ Len(result) = Len(imported)
             /\ \A i \in 1..Len(result) : SameRow(result[i].rec, imported[i])
    /\ store.exists
          => LET keep == {i \in 1..Len(imported) :
                             ~IsNull(imported[i].pl_name)}
             IN  /\ Len(store.rows) = Cardinality(keep)
                 /\ \A k \in 1..Len(store.rows) :
                       \E i \in keep : SameRow(store.rows[k], imported[i])

C5_Witness ==
    /\ lastOp = "get_all_exoplanets" /\ outcome = "ok"
    /\ WellFormed(imported)
    /\ Len(imported) = 2 /\ Len(result) = 2
    /\ result[1].rec.pl_bmasse # result[2].rec.pl_bmasse

\* C6: once the table exists, name is its primary key, every row has a name
\* and no two rows have the same name.
C6_NameIsPrimaryKey ==
    store.exists =>
        /\ store.pk
        /\ \A i \in 1..Len(store.rows) : ~IsNull(store.rows[i].pl_name)
        /\ \A i, j \in 1..Len(store.rows) :
              i # j => store.rows[i].pl_name # store.rows[j].pl_name

\* C7: update_dashboard leaves df, discovery_df, stats, the database object
\* and the database file as they were.
C7_UpdateFrame ==
    [][lastOp' = "update_dashboard"
          => UNCHANGED <<df, discovery_df, stats, db, store>>]_vars

C7_Witness ==
    /\ lastOp = "update_dashboard"
    /\ Len(filtered_df) < Len(df)
    /\ mass_range.value # <<Val(0), mass_range.end>>

\* C8, as claimed: no close() raises, and a connection that was closed is
\* not closed again.
C8_CloseOnce ==
    /\ lastOp = "close" => outcome = "ok"
    /\ db.closes <= 1

\* C8, amended: no close() raises or changes the file; before connect it
\* does nothing; after connect every close(), the first and the later ones,
\* calls Connection.close() on self.conn, which leaves it closed.
C8_CloseSafe ==
    [][lastOp' = "close" =>
          /\ outcome' = "ok"
          /\ store' = store
          /\ IF db.conn = "None" THEN db' = db
             ELSE db'.conn = "closed" /\ db'.closes = db.closes + 1]_vars

C8_Witness ==
    lastOp = "close" /\ outcome = "ok" /\ db.conn = "closed" /\ db.closes = 2

RECURSIVE MassTotal(_, _)
MassTotal(f, S) ==
    IF S = {} THEN 0
    ELSE LET i == CHOOSE j \in S : TRUE
         IN  f[i].rec.pl_bmasse[1] + MassTotal(f, S \ {i})

\* C9: the average mass the statistics slot shows is absent when no row of
\* the view has a mass, and else is the mean of the masses that are present.
C9_AverageSkipsNulls ==
    pc = "serving" =>
        LET S == {i \in 1..Len(filtered_df) : ~NullMass(filtered_df[i])}
            n == Cardinality(S)
            t == MassTotal(filtered_df, S)
            a == panels.stats.avg_mass
        IN  IF S = {} THEN a = Null
            ELSE /\ a # Null
                 /\ 2 * (a[1] * n - 100 * t) <= n
                 /\ 2 * (100 * t - a[1] * n) <= n

C9_Witness ==
    /\ pc = "serving"
    /\ \E i \in 1..Len(filtered_df) : NullMass(filtered_df[i])
    /\ \E i \in 1..Len(filtered_df) : filtered_df[i].rec.pl_bmasse = Val(1)
    /\ panels.stats.avg_mass = Val(100)

\* C10: before the first update_dashboard the view is the whole of df, null
\* masses included, and the total shown is the size of df; after it no row
\* with a null mass is in the view, so the view differs from df when df has
\* such a row.
C10_InitialViewIsWholeSet ==
    /\ (pc \in {"inited", "serving"} /\ ~interacted)
          => /\ filtered_df = df
             /\ pc = "serving" => panels.stats.total = Len(df)
    /\ (interacted /\ \E i \in 1..Len(df) : NullMass(df[i]))
          => /\ filtered_df # df
             /\ \A k \in 1..Len(filtered_df) : ~NullMass(filtered_df[k])

C10_Witness ==
    /\ interacted
    /\ mass_range.value = <<Val(0), mass_range.end>>
    /\ \E i \in 1..Len(df) : NullMass(df[i])
    /\ 0 < Len(filtered_df) /\ Len(filtered_df) < Len(df)

====
